---- MODULE Spec2Model ----
(***************************************************************************)
(* A model of the ENTSO-E extraction and reconciliation code of            *)
(* src/transparency_api.py: get_transp_api (one XML document to one long   *)
(* table), process (several long tables to one wide table) and             *)
(* save_to_sqlite (one table written under a table name).                  *)
(*                                                                         *)
(* A table (pandas DataFrame) is a record                                  *)
(*     [kind, cols, rows]                                                  *)
(* where cols is the sequence of column names and every row is a record    *)
(*     [date, value, resolution, meta]                                     *)
(* date = [t |-> wall-clock minutes since 2024-01-01T00:00, off |-> UTC    *)
(* offset in minutes, s |-> seconds past the minute], and meta = the       *)
(* values of the columns cols[4..], in column order.                       *)
(***************************************************************************)
EXTENDS Integers, Sequences, FiniteSets, TLC

VARIABLES
    doc,                 \* the response of the API for the current query
    pc,                  \* position in main: "fetch","extract","reconcile","process","done"
                         \* ("aborted": the run ended on an exception)
    differing_elements,  \* get_transp_api: the varying metadata tags, in list order
    raw_df,              \* get_transp_api: the concatenated per-series rows
    df_15_hourly,        \* get_transp_api: the hourly sums of the PT15M rows
    result,              \* what get_transp_api returned (a table or None)
    log,                 \* the diagnostics printed so far
    df_list,             \* process: the caller's list of tables
    wide,                \* process: the wide table returned by the last call
    wide_prev,           \* process: the wide table returned by the call before
    calls,               \* process: number of calls made on df_list
    db,                  \* save_to_sqlite: the table stored under table_name in db_path
    passed,              \* save_to_sqlite: the tables passed to the calls made so far
    rte,                 \* RTEAPI.download_data: its locals and the dates it attempted
    rte_db,              \* RTEDataStorage: the rte_data table and the calls made on it
    weather              \* the weather table of main and the runs that saved into it

vars == <<doc, pc, differing_elements, raw_df, df_15_hourly, result, log,
          df_list, wide, wide_prev, calls, db, passed, rte, rte_db, weather>>

(***************************************************************************)
(* Bounds of the explored inputs.                                          *)
(***************************************************************************)
MaxPoints == 4
MaxMetaSeries == 3
MaxCalls == 2
MaxRows == 2
MaxSaves == 3
MaxDays == 3
MaxAttempts == 2
MaxBatches == 2

(***************************************************************************)
(* Small helpers on sequences and sets.                                    *)
(***************************************************************************)
Range(s) == {s[i] : i \in 1..Len(s)}

RECURSIVE SumSeq(_)
SumSeq(s) == IF s = <<>> THEN 0 ELSE Head(s) + SumSeq(Tail(s))

RECURSIVE Flatten(_)
Flatten(ss) == IF ss = <<>> THEN <<>> ELSE Head(ss) \o Flatten(Tail(ss))

\* every enumeration of the finite set S without repetition
Orders(S) == {s \in [1..Cardinality(S) -> S] : Range(s) = S}

Min(S) == CHOOSE x \in S : \A y \in S : x <= y
Max(S) == CHOOSE x \in S : \A y \in S : y <= x

(***************************************************************************)
(* Strings.  TLC cannot look inside a string, so the two things the code   *)
(* does with the characters of a string are modelled on explicit tables:   *)
(* the characters of a resolution code, and the alphabetical order of the  *)
(* vocabulary (used by pandas when it sorts group keys and column names).  *)
(***************************************************************************)
Chars(s) ==
    CASE s = "PT15M" -> <<"P", "T", "1", "5", "M">>
      [] s = "PT30M" -> <<"P", "T", "3", "0", "M">>
      [] s = "PT60M" -> <<"P", "T", "6", "0", "M">>

DigitValue(c) ==
    CASE c = "0" -> 0 [] c = "1" -> 1 [] c = "2" -> 2 [] c = "3" -> 3
      [] c = "4" -> 4 [] c = "5" -> 5 [] c = "6" -> 6 [] c = "7" -> 7
      [] c = "8" -> 8 [] c = "9" -> 9

IsDigit(c) == c \in {"0", "1", "2", "3", "4", "5", "6", "7", "8", "9"}

RECURSIVE ParseInt(_, _)
ParseInt(cs, acc) ==
    IF cs = <<>> THEN acc ELSE ParseInt(Tail(cs), 10 * acc + DigitValue(Head(cs)))

\* the value texts of the model that denote a number, and the number they denote
IsNumeric(s) == s \in {"2", "5", "10"}
NumberOf(s) ==
    CASE s = "2" -> 2
      [] s = "5" -> 5
      [] s = "10" -> 10

\* int(''.join(filter(str.isdigit, resolution)))
ResMins(resolution) == ParseInt(SelectSeq(Chars(resolution), IsDigit), 0)

\* Python's order on the strings of the model (code point order)
Alphabet ==
    <<"", "1", "2", "3", "4", "A01", "A02", "A69", "B16", "PT15M", "PT30M", "PT60M",
      "PT60M_aggregated", "Production", "Solar", "Value", "Wind and solar forecast",
      "solar", "wind">>

StrRank(s) == CHOOSE i \in 1..Len(Alphabet) : Alphabet[i] = s

\* lexicographic order on sequences of strings: -1, 0, 1
RECURSIVE CmpSeq(_, _)
CmpSeq(a, b) ==
    IF a = <<>> /\ b = <<>> THEN 0
    ELSE IF a = <<>> THEN -1
    ELSE IF b = <<>> THEN 1
    ELSE IF StrRank(Head(a)) < StrRank(Head(b)) THEN -1
    ELSE IF StrRank(Head(a)) > StrRank(Head(b)) THEN 1
    ELSE CmpSeq(Tail(a), Tail(b))

(***************************************************************************)
(* Timestamps.                                                             *)
(***************************************************************************)
\* start_str.replace('Z', '+00:00'), then the offset datetime.fromisoformat reads
ZoneOffset(zone) ==
    CASE zone = "Z" -> 0
      [] zone = "+00:00" -> 0
      [] zone = "+01:00" -> 60

\* datetime.fromisoformat: wall-clock minutes since 2024-01-01T00:00, offset kept
FromIsoFormat(start, zone) ==
    [t |-> start.d * 1440 + start.h * 60 + start.mi, off |-> ZoneOffset(zone),
     s |-> start.s]

\* start_dt + timedelta(minutes=m): wall-clock addition, same tzinfo
PlusMinutes(dt, m) == [t |-> dt.t + m, off |-> dt.off, s |-> dt.s]

\* the instant of an aware datetime, in minutes UTC
Instant(dt) == dt.t - dt.off

Minute(dt) == dt.t % 60
Second(dt) == dt.s

\* the start of the 1h bin pd.Grouper(freq='1h') puts dt in (bins are wall-clock hours)
HourFloor(dt) == [t |-> dt.t - (dt.t % 60), off |-> dt.off, s |-> 0]

(***************************************************************************)
(* Documents.  A document is what requests.get returned for one query,     *)
(* together with the caller's req_params and opt_params:                   *)
(*   body          "empty" | "malformed" | "nonamespace" | "xml"           *)
(*   reason        the texts of //Reason/code and //Reason/text            *)
(*   zone          the UTC designator of the start strings                 *)
(*   pointChildren the child tags of the first Point of the first series   *)
(*   series        the TimeSeries nodes, in document order                 *)
(* A series has an mRID, a first Period (start, res, pts), the Period       *)
(* blocks that follow it (more) and metadata children; Absent marks a      *)
(* child the series does not have.                                         *)
(***************************************************************************)
Absent == "<absent>"
None == [kind |-> "None", cols |-> <<>>, rows |-> <<>>]
DataFrame(cols, rows) == [kind |-> "df", cols |-> cols, rows |-> rows]
EmptyFrame == DataFrame(<<>>, <<>>)
\* an exception on its way out of a function, in the place of the returned value
Raised == [kind |-> "raise", cols |-> <<>>, rows |-> <<>>]

TagNames == {"type", "businessType"}

NoParams == [req |-> <<>>, opt |-> <<>>]
SomeParams ==
    [req |-> <<[k |-> "documentType", v |-> "A69"]>>,
     opt |-> <<[k |-> "psrType", v |-> "B16"]>>]
ParamChoices == {NoParams, SomeParams}

NoReason == [codes |-> <<>>, texts |-> <<>>]
ReasonChoices ==
    {[codes |-> <<"999">>, texts |-> <<"No matching data found">>],
     [codes |-> <<"999">>, texts |-> <<>>]}

Midnight == [d |-> 0, h |-> 0, mi |-> 0, s |-> 0]
HalfPast == [d |-> 0, h |-> 0, mi |-> 30, s |-> 0]
HalfMinute == [d |-> 0, h |-> 0, mi |-> 0, s |-> 30]
TwoOClock == [d |-> 0, h |-> 2, mi |-> 0, s |-> 0]

\* points at positions 1..n, all with the value text v
Points(n, v) == [p \in 1..n |-> [position |-> p, value |-> v]]

MkSeries(res, start, type, bt, n, v) ==
    [res |-> res, start |-> start,
     tags |-> [tag \in TagNames |-> IF tag = "type" THEN type ELSE bt],
     pts |-> Points(n, v), more |-> <<>>]

\* a Period block: its start, its resolution and its points
Period(res, start, n, v) == [res |-> res, start |-> start, pts |-> Points(n, v)]

\* series of the documents that exercise the reconciliation of resolutions
ReconSeries ==
    {MkSeries(res, start, type, "A01", n, v) :
        res \in {"PT15M", "PT30M", "PT60M"}, start \in {Midnight, HalfPast},
        type \in {"solar", "wind"}, n \in 1..MaxPoints, v \in {"2", "10"}}

\* series of the documents that exercise the discovery of the varying metadata
MetaSeries ==
    {MkSeries("PT60M", Midnight, type, bt, n, "5") :
        type \in {"solar", "wind"}, bt \in {Absent, "A01"}, n \in 1..2}

\* the mRID of a series is its rank in the document
WithIds(ss) == [i \in 1..Len(ss) |-> [mRID |-> Alphabet[i + 1]] @@ ss[i]]

XmlDoc(reason, zone, params, ss) ==
    [body |-> "xml", reason |-> reason, zone |-> zone, params |-> params,
     pointChildren |-> <<"position", "quantity">>, series |-> WithIds(ss)]

SeqsUpTo(S, lo, hi) == UNION {[1..n -> S] : n \in lo..hi}

ReconDocs ==
    {XmlDoc(NoReason, "Z", params, ss) :
        params \in ParamChoices, ss \in SeqsUpTo(ReconSeries, 1, 2)}

MetaDocs ==
    {XmlDoc(NoReason, zone, params, ss) :
        zone \in {"Z", "+01:00"}, params \in ParamChoices,
        ss \in SeqsUpTo(MetaSeries, 0, MaxMetaSeries)}

ErrorDocs ==
    {XmlDoc(reason, "Z", SomeParams, ss) :
        reason \in ReasonChoices, ss \in SeqsUpTo(MetaSeries, 0, 1)}

BrokenDocs ==
    {[XmlDoc(NoReason, "Z", SomeParams, <<>>) EXCEPT !.body = b] :
        b \in {"empty", "malformed", "nonamespace"}}

\* documents in which the value text of a series is not a number
BadValueSeries ==
    {MkSeries("PT60M", Midnight, type, "A01", n, v) :
        type \in {"solar", "wind"}, n \in 1..2, v \in {"5", "N/A"}}

BadValueDocs ==
    {XmlDoc(NoReason, "Z", NoParams, ss) : ss \in SeqsUpTo(BadValueSeries, 1, 2)}

\* documents whose first Point has fewer than two child elements
MalformedPointDocs ==
    {[XmlDoc(NoReason, "Z", params, ss) EXCEPT !.pointChildren = children] :
        params \in ParamChoices, ss \in SeqsUpTo(MetaSeries, 1, 1),
        children \in {<<>>, <<"position">>}}

\* documents whose series start thirty seconds past the hour
SecondsDocs ==
    {XmlDoc(NoReason, "Z", NoParams, <<MkSeries(res, HalfMinute, "solar", "A01", n, "2")>>) :
        res \in {"PT15M", "PT60M"}, n \in 1..MaxPoints}

\* documents of two PT15M series with an hour between them that has no point
GapDocs ==
    {XmlDoc(NoReason, "Z", params,
            <<MkSeries("PT15M", Midnight, "solar", "A01", n, "2"),
              MkSeries("PT15M", TwoOClock, type, "A01", m, "10")>>) :
        params \in ParamChoices, type \in {"solar", "wind"}, n \in 1..2, m \in 1..2}

\* documents of one series with two Period blocks, two hours apart
PeriodDocs ==
    {XmlDoc(NoReason, "Z", params,
            <<[MkSeries("PT60M", Midnight, "solar", "A01", n, "5")
                  EXCEPT !.more = <<Period(res, TwoOClock, m, "10")>>]>>) :
        params \in ParamChoices, res \in {"PT15M", "PT60M"}, n \in 1..2, m \in 1..2}

\* documents whose series carry business type codes with and without a label
CodeDocs ==
    {XmlDoc(NoReason, "Z", params,
            <<MkSeries("PT60M", Midnight, "solar", bt1, 1, "5"),
              MkSeries("PT60M", Midnight, "solar", bt2, 1, "5")>>) :
        params \in ParamChoices, bt1 \in {"A01", "A02"}, bt2 \in {"A01", "A02"}}

Docs ==
    ReconDocs \cup MetaDocs \cup ErrorDocs \cup BrokenDocs \cup BadValueDocs
        \cup MalformedPointDocs \cup SecondsDocs \cup GapDocs \cup CodeDocs \cup PeriodDocs

(***************************************************************************)
(* get_transp_api, lines 41-65: the response, the namespace, the in-band   *)
(* error, the series nodes.                                                *)
(***************************************************************************)
Diag(msg, code, text) == [msg |-> msg, code |-> code, text |-> text]

\* root.xpath("//ns:TimeSeries"): no node can be selected without a namespace
TimeseriesNodes(d) == d.series

\* fault variant: the series nodes are tested before the in-band error
ParseOutcomeSeriesFirst(d) ==
    IF d.body = "empty" THEN Diag("Error: Empty response from API", "", "")
    ELSE IF d.body = "malformed" THEN Diag("raise", "", "")
    ELSE IF d.body = "nonamespace" THEN Diag("Error: Could not parse XML namespace", "", "")
    ELSE IF TimeseriesNodes(d) = <<>> THEN Diag("No TimeSeries data found.", "", "")
    ELSE IF d.reason.codes # <<>>
        THEN Diag("API Error", d.reason.codes[1],
                  IF d.reason.texts # <<>> THEN d.reason.texts[1] ELSE "")
    ELSE Diag("ok", "", "")

\* the diagnostic printed by lines 41-65, "raise" when etree.fromstring raises,
\* or "ok" when the series nodes are selected
ParseOutcome(d) ==
    IF d.body = "empty" THEN Diag("Error: Empty response from API", "", "")
    ELSE IF d.body = "malformed" THEN Diag("raise", "", "")
    ELSE IF d.body = "nonamespace" THEN Diag("Error: Could not parse XML namespace", "", "")
    ELSE IF d.reason.codes # <<>>
        THEN Diag("API Error", d.reason.codes[1],
                  IF d.reason.texts # <<>> THEN d.reason.texts[1] ELSE "")
    ELSE IF TimeseriesNodes(d) = <<>> THEN Diag("No TimeSeries data found.", "", "")
    ELSE Diag("ok", "", "")

\* fault variant: no handler, the exception leaves the function
TryExceptPropagates(out) == [result |-> out, log |-> <<>>]
\* lines 29, 178-180: an exception raised in the body is printed and None returned
TryExcept(out) ==
    IF out.kind = "raise"
    THEN [result |-> None, log |-> <<Diag("Error: exception", "", "")>>]
    ELSE [result |-> out, log |-> <<>>]

\* main.py lines 68-92: main goes on to process with what the call returned; an
\* exception that leaves the call ends the run
AfterCall(res) == IF res.kind = "raise" THEN "aborted" ELSE "process"

Parse ==
    /\ pc = "fetch"
    /\ LET out == ParseOutcome(doc)
           ret == IF out.msg = "raise" THEN TryExcept(Raised)
                  ELSE [result |-> None, log |-> <<out>>]
       IN IF out.msg = "ok"
          THEN /\ pc' = "extract"
               /\ UNCHANGED <<result, log, df_list>>
          ELSE /\ pc' = AfterCall(ret.result)
               /\ result' = ret.result
               /\ df_list' = Append(df_list, ret.result)
               /\ log' = log \o ret.log
    /\ UNCHANGED <<doc, differing_elements, raw_df, df_15_hourly, wide, wide_prev, calls, db, passed, rte, rte_db, weather>>

(***************************************************************************)
(* get_transp_api, lines 67-125: the value field, the varying metadata,    *)
(* one block of rows per series.                                           *)
(***************************************************************************)
\* the tags of ts.xpath("./ns:*")
Children(ts) == {"mRID", "Period"} \cup {tag \in TagNames : ts.tags[tag] # Absent}

\* ts.xpath(f"string(ns:{tag})").strip(): the empty string for a missing child
StringValue(ts, tag) ==
    IF tag = "mRID" THEN ts.mRID
    ELSE IF tag = "Period" THEN ts.res
    ELSE IF ts.tags[tag] = Absent THEN "" ELSE ts.tags[tag]

\* fault variant: mRID and Period are not set aside
AllTagsNoExclusion(nodes) == UNION {Children(nodes[i]) : i \in 1..Len(nodes)}
\* lines 77-82
AllTags(nodes) ==
    UNION {Children(nodes[i]) : i \in 1..Len(nodes)} \ {"mRID", "Period"}

\* lines 75-87, as a set: the list is filled in the iteration order of a set
DifferingSet(nodes) ==
    IF Len(nodes) > 1
    THEN {tag \in AllTags(nodes) :
            Cardinality({StringValue(nodes[i], tag) : i \in 1..Len(nodes)}) > 1}
    ELSE {}

Keys(params) == [i \in 1..Len(params) |-> params[i].k]
Vals(params) == [i \in 1..Len(params) |-> params[i].v]

\* fault variant: position p taken as an offset of p steps
DateTimeNoShift(start_dt, p, res_mins) == PlusMinutes(start_dt, p * res_mins)
\* line 107
DateTime(start_dt, p, res_mins) == PlusMinutes(start_dt, (p - 1) * res_mins)

\* lines 104-105: the Point nodes under the series, those of every Period block,
\* in document order
AllPoints(ts) == ts.pts \o Flatten([b \in 1..Len(ts.more) |-> ts.more[b].pts])

\* lines 97-120: the rows of one series; the start and the resolution are those
\* of its first Period block (the [0] of lines 97-98)
SeriesRows(ts, zone, de, params) ==
    LET start_dt == FromIsoFormat(ts.start, zone)
        res_mins == ResMins(ts.res)
        meta == [i \in 1..Len(de) |-> StringValue(ts, de[i])]
                    \o Vals(params.req) \o Vals(params.opt)
    IN [i \in 1..Len(AllPoints(ts)) |->
            [date |-> DateTime(start_dt, AllPoints(ts)[i].position, res_mins),
             value |-> AllPoints(ts)[i].value,
             resolution |-> ts.res,
             meta |-> meta]]

\* line 125: pd.to_numeric on the value column of the concatenated rows; one
\* text that is not a number makes the call raise
ToNumeric(rows) ==
    IF \A i \in 1..Len(rows) : IsNumeric(rows[i].value)
    THEN DataFrame(<<>>, [i \in 1..Len(rows) |-> [rows[i] EXCEPT !.value = NumberOf(@)]])
    ELSE Raised

\* lines 95-125
RawFrame(d, value_name, de) ==
    LET num == ToNumeric(Flatten([i \in 1..Len(d.series) |->
                                    SeriesRows(d.series[i], d.zone, de, d.params)]))
    IN IF num.kind = "raise" THEN Raised
       ELSE DataFrame(<<"date", value_name, "resolution">> \o de
                          \o Keys(d.params.req) \o Keys(d.params.opt),
                      num.rows)

Extract ==
    /\ pc = "extract"
    /\ IF Len(doc.pointChildren) < 2
       THEN /\ pc' = "process"
            /\ result' = None
            /\ df_list' = Append(df_list, None)
            /\ UNCHANGED <<differing_elements, raw_df, log>>
       ELSE \E de \in Orders(DifferingSet(TimeseriesNodes(doc))) :
            LET frame == RawFrame(doc, doc.pointChildren[2], de)
                ret == TryExcept(frame)
            IN /\ differing_elements' = de
               /\ IF frame.kind = "raise"
                  THEN /\ pc' = AfterCall(ret.result)
                       /\ result' = ret.result
                       /\ df_list' = Append(df_list, ret.result)
                       /\ log' = log \o ret.log
                       /\ UNCHANGED raw_df
                  ELSE /\ raw_df' = frame
                       /\ pc' = "reconcile"
                       /\ UNCHANGED <<result, df_list, log>>
    /\ UNCHANGED <<doc, df_15_hourly, wide, wide_prev, calls, db, passed, rte, rte_db, weather>>

(***************************************************************************)
(* get_transp_api, lines 127-176: the two resolutions, the hourly sums,    *)
(* the priority rule, the exact-hour filter.                               *)
(***************************************************************************)
\* raw_df[raw_df['resolution'] == res]
OfResolution(rows, res) == SelectSeq(rows, LAMBDA r : r.resolution = res)

\* the group a PT15M row falls in: its grouping columns and its 1h bin
GroupOf(r) == [meta |-> r.meta, date |-> HourFloor(r.date)]

\* groupby sorts the groups by the grouping columns, then by the bin
GroupLess(a, b) ==
    \/ CmpSeq(a.meta, b.meta) < 0
    \/ CmpSeq(a.meta, b.meta) = 0 /\ Instant(a.date) < Instant(b.date)

RECURSIVE SortedGroups(_)
SortedGroups(S) ==
    IF S = {} THEN <<>>
    ELSE LET m == CHOOSE g \in S : \A h \in S \ {g} : GroupLess(g, h)
         IN <<m>> \o SortedGroups(S \ {m})

\* fault variant: the first sample instead of the sum
GroupSumFirstOnly(rows, g) ==
    LET members == SelectSeq(rows, LAMBDA r : GroupOf(r) = g)
    IN IF members = <<>> THEN 0 ELSE members[1].value
\* fault variant: the sum of the whole 1h bin, whatever the grouping columns
GroupSumWholeBin(rows, g) ==
    SumSeq([i \in 1..Len(SelectSeq(rows, LAMBDA r : HourFloor(r.date) = g.date)) |->
               SelectSeq(rows, LAMBDA r : HourFloor(r.date) = g.date)[i].value])
\* [value_name].sum() of one group (0 for a bin no row falls in)
GroupSum(rows, g) ==
    SumSeq([i \in 1..Len(SelectSeq(rows, LAMBDA r : GroupOf(r) = g)) |->
               SelectSeq(rows, LAMBDA r : GroupOf(r) = g)[i].value])

\* lines 137-139: grouping columns and the 1h bin: the observed groups only
ObservedGroups(rows) == SortedGroups({GroupOf(rows[i]) : i \in 1..Len(rows)})

\* lines 142-144: the 1h bin alone: every bin from the first to the last one
AllBins(rows) ==
    LET off == rows[1].date.off
        hours == {HourFloor(rows[i].date).t : i \in 1..Len(rows)}
        n == (Max(hours) - Min(hours)) \div 60 + 1
    IN [i \in 1..n |-> [meta |-> <<>>, date |-> [t |-> Min(hours) + 60 * (i - 1), off |-> off, s |-> 0]]]

\* fault variant: the hourly sums tagged as native rows
Hourly15NativeTag(df_15, group_cols) ==
    IF df_15 = <<>> THEN <<>>
    ELSE LET groups == IF group_cols # <<>> THEN ObservedGroups(df_15) ELSE AllBins(df_15)
         IN [i \in 1..Len(groups) |->
                [date |-> groups[i].date,
                 value |-> GroupSum(df_15, groups[i]),
                 resolution |-> "PT60M",
                 meta |-> groups[i].meta]]
\* lines 134-148
Hourly15(df_15, group_cols) ==
    IF df_15 = <<>> THEN <<>>
    ELSE LET groups == IF group_cols # <<>> THEN ObservedGroups(df_15) ELSE AllBins(df_15)
         IN [i \in 1..Len(groups) |->
                [date |-> groups[i].date,
                 value |-> GroupSum(df_15, groups[i]),
                 resolution |-> "PT60M_aggregated",
                 meta |-> groups[i].meta]]

\* the sort key of sort_values(by=['date', 'priority'])
SortKey(r) == <<60 * Instant(r.date) + Second(r.date), r.priority>>
KeyLess(a, b) == a[1] < b[1] \/ (a[1] = b[1] /\ a[2] < b[2])

\* insertion after the rows that do not sort after r: the sort is stable
RECURSIVE InsertStable(_, _)
InsertStable(sorted, r) ==
    IF sorted = <<>> THEN <<r>>
    ELSE IF KeyLess(SortKey(r), SortKey(Head(sorted))) THEN <<r>> \o sorted
    ELSE <<Head(sorted)>> \o InsertStable(Tail(sorted), r)

RECURSIVE SortValues(_)
SortValues(rows) ==
    IF rows = <<>> THEN <<>>
    ELSE InsertStable(SortValues(SubSeq(rows, 1, Len(rows) - 1)), rows[Len(rows)])

\* the columns of subset_cols: the date and the grouping columns
SubsetKey(r) == <<Instant(r.date), Second(r.date), r.meta>>

\* drop_duplicates(subset=subset_cols, keep='first')
DropDuplicates(rows) ==
    LET keep == {i \in 1..Len(rows) : \A j \in 1..(i - 1) : SubsetKey(rows[j]) # SubsetKey(rows[i])}
        RECURSIVE Pick(_)
        Pick(i) == IF i > Len(rows) THEN <<>>
                   ELSE (IF i \in keep THEN <<rows[i]>> ELSE <<>>) \o Pick(i + 1)
    IN Pick(1)

WithPriority(rows, p) ==
    [i \in 1..Len(rows) |-> [priority |-> p] @@ rows[i]]
DropPriority(rows) ==
    [i \in 1..Len(rows) |->
        [date |-> rows[i].date, value |-> rows[i].value,
         resolution |-> rows[i].resolution, meta |-> rows[i].meta]]

\* fault variant: the priorities exchanged
CombineAggregatedFirst(df_60, hourly) ==
    IF hourly # <<>>
    THEN DropPriority(DropDuplicates(SortValues(
             WithPriority(df_60, 2) \o WithPriority(hourly, 1))))
    ELSE df_60
\* lines 154-168
Combine(df_60, hourly) ==
    IF hourly # <<>>
    THEN DropPriority(DropDuplicates(SortValues(
             WithPriority(df_60, 1) \o WithPriority(hourly, 2))))
    ELSE df_60

\* fault variant: no filter
ExactHoursUnfiltered(rows) == rows
\* lines 171-174
ExactHours(rows) == SelectSeq(rows, LAMBDA r : Minute(r.date) = 0 /\ Second(r.date) = 0)

GroupCols(cols) == SubSeq(cols, 4, Len(cols))

Reconcile ==
    /\ pc = "reconcile"
    /\ LET df_15 == OfResolution(raw_df.rows, "PT15M")
           df_60 == OfResolution(raw_df.rows, "PT60M")
           hourly == Hourly15(df_15, GroupCols(raw_df.cols))
           final_df == DataFrame(raw_df.cols, ExactHours(Combine(df_60, hourly)))
       IN /\ df_15_hourly' = hourly
          /\ result' = final_df
          /\ df_list' = Append(df_list, final_df)
    /\ pc' = "process"
    /\ UNCHANGED <<doc, differing_elements, raw_df, log, wide, wide_prev, calls, db, passed, rte, rte_db, weather>>

(***************************************************************************)
(* process, lines 183-237.                                                 *)
(***************************************************************************)
\* utils.all_dics: column name -> (code -> label)
all_dics ==
    [documentType |-> [A69 |-> "Wind and solar forecast"],
     businessType |-> [A01 |-> "Production"],
     psrType |-> [B16 |-> "Solar"]]

\* fault variant: no value is translated
MapCodeVerbatim(col, v) == v
\* lines 206-208: temp_df[col].map(all_dics[col]).fillna(temp_df[col])
MapCode(col, v) ==
    IF col \in DOMAIN all_dics /\ v \in DOMAIN all_dics[col] THEN all_dics[col][v] ELSE v

\* line 199
Skipped(df) == df.kind = "None" \/ df.rows = <<>> \/ df.cols = <<>>

\* the value of column cols[i], i >= 3, in row r
ColValue(r, i) == IF i = 3 THEN r.resolution ELSE r.meta[i - 3]

\* fault variant: resolution always joined
MetadataColsAlwaysResolution(df) ==
    SelectSeq([i \in 1..(Len(df.cols) - 2) |-> i + 2], LAMBDA i : df.cols[i] # "resolution")
        \o <<3>>
\* fault variant: resolution joined at its place among the columns
MetadataColsResolutionFirst(df) ==
    (IF Cardinality({df.rows[j].resolution : j \in 1..Len(df.rows)}) > 1
     THEN <<3>> ELSE <<>>)
        \o SelectSeq([i \in 1..(Len(df.cols) - 2) |-> i + 2], LAMBDA i : df.cols[i] # "resolution")
\* lines 213-216: the positions of the metadata columns, in the order they are joined
MetadataCols(df) ==
    SelectSeq([i \in 1..(Len(df.cols) - 2) |-> i + 2], LAMBDA i : df.cols[i] # "resolution")
        \o (IF Cardinality({df.rows[j].resolution : j \in 1..Len(df.rows)}) > 1
            THEN <<3>> ELSE <<>>)

\* lines 218-221: the ' - ' join, kept as the sequence of the joined values
Description(df, r) ==
    LET mc == MetadataCols(df)
    IN IF Len(mc) > 0
       THEN [k \in 1..Len(mc) |-> MapCode(df.cols[mc[k]], ColValue(r, mc[k]))]
       ELSE <<"Value">>

\* lines 202-224: the long form of one table
LongForm(df) ==
    [j \in 1..Len(df.rows) |->
        [date |-> df.rows[j].date,
         value |-> df.rows[j].value,
         description |-> Description(df, df.rows[j])]]

\* the UTC offset of Europe/Paris in 2024, in minutes
ParisOffset(utc) ==
    IF 90 * 1440 + 60 <= utc /\ utc < 300 * 1440 + 60 THEN 120 ELSE 60

\* line 232: tz_convert('Europe/Paris').tz_localize(None), as wall-clock minutes
\* (the rows get_transp_api returns are on exact hours)
ToParisNaive(dt) == Instant(dt) + ParisOffset(Instant(dt))

RECURSIVE SortedInts(_)
SortedInts(S) ==
    IF S = {} THEN <<>>
    ELSE <<Min(S)>> \o SortedInts(S \ {Min(S)})

RECURSIVE SortedDescs(_)
SortedDescs(S) ==
    IF S = {} THEN <<>>
    ELSE LET m == CHOOSE a \in S : \A b \in S : CmpSeq(a, b) <= 0
         IN <<m>> \o SortedDescs(S \ {m})

\* fault variant: the value of the last long row of the cell
FirstValueLast(long, date, desc) ==
    LET hits == SelectSeq(long, LAMBDA x : ToParisNaive(x.date) = date /\ x.description = desc)
    IN IF hits = <<>> THEN <<>> ELSE <<hits[Len(hits)].value>>
\* aggfunc='first': the value of the first long row of the cell, <<>> for a null cell
FirstValue(long, date, desc) ==
    LET hits == SelectSeq(long, LAMBDA x : ToParisNaive(x.date) = date /\ x.description = desc)
    IN IF hits = <<>> THEN <<>> ELSE <<hits[1].value>>

\* fault variant: only the timestamps every label has
PivotInnerJoin(long) ==
    LET descs == SortedDescs({long[i].description : i \in 1..Len(long)})
        dates == SortedInts({d \in {ToParisNaive(long[i].date) : i \in 1..Len(long)} :
                     \A k \in 1..Len(descs) : FirstValue(long, d, descs[k]) # <<>>})
    IN [kind |-> "df",
        cols |-> descs,
        rows |-> [i \in 1..Len(dates) |->
                    [date |-> dates[i],
                     cells |-> [k \in 1..Len(descs) |-> FirstValue(long, dates[i], descs[k])]]]]
\* fault variant: one wide row per long row
PivotPerRow(long) ==
    LET descs == SortedDescs({long[i].description : i \in 1..Len(long)})
    IN [kind |-> "df",
        cols |-> descs,
        rows |-> [i \in 1..Len(long) |->
                    [date |-> ToParisNaive(long[i].date),
                     cells |-> [k \in 1..Len(descs) |->
                                  IF long[i].description = descs[k]
                                  THEN <<long[i].value>> ELSE <<>>]]]]
\* lines 235-237: the wide table; the column 'date' comes first and is kept apart
Pivot(long) ==
    LET dates == SortedInts({ToParisNaive(long[i].date) : i \in 1..Len(long)})
        descs == SortedDescs({long[i].description : i \in 1..Len(long)})
    IN [kind |-> "df",
        cols |-> descs,
        rows |-> [i \in 1..Len(dates) |->
                    [date |-> dates[i],
                     cells |-> [k \in 1..Len(descs) |-> FirstValue(long, dates[i], descs[k])]]]]

EmptyWide == [kind |-> "df", cols |-> <<>>, rows |-> <<>>]
NotCalled == [kind |-> "none", cols |-> <<>>, rows |-> <<>>]

\* lines 196-229: the concatenated long forms of the tables that are not skipped
CombinedLong(dfs) ==
    Flatten([i \in 1..Len(dfs) |-> IF Skipped(dfs[i]) THEN <<>> ELSE LongForm(dfs[i])])

\* pd.concat keeps a datetime column only if all its frames have one UTC offset;
\* otherwise the column holds objects and the .dt accessor of line 232 raises
Offsets(long) == {long[i].date.off : i \in 1..Len(long)}

\* fault variant: the loop is left at the first table that is None or empty
ProcessResultStopAtSkipped(dfs) ==
    LET stop == {i \in 1..Len(dfs) : Skipped(dfs[i])}
        long == CombinedLong(IF stop = {} THEN dfs ELSE SubSeq(dfs, 1, Min(stop) - 1))
    IN IF long = <<>> THEN EmptyWide
       ELSE IF Cardinality(Offsets(long)) > 1 THEN Raised
       ELSE Pivot(long)
\* lines 183-237
ProcessResult(dfs) ==
    LET long == CombinedLong(dfs)
    IN IF long = <<>> THEN EmptyWide
       ELSE IF Cardinality(Offsets(long)) > 1 THEN Raised
       ELSE Pivot(long)

\* fault variant: the caller's table renamed and extended in place
AfterProcessInPlace(df) ==
    IF Skipped(df) THEN df
    ELSE DataFrame(<<df.cols[1], "value">> \o SubSeq(df.cols, 3, Len(df.cols))
                       \o <<"description">>,
                   [j \in 1..Len(df.rows) |->
                       [df.rows[j] EXCEPT !.meta = @ \o <<Description(df, df.rows[j])[1]>>]])
\* line 202: process works on a copy; the caller's table is left as it was
AfterProcess(df) == df

\* one call of process on the caller's list
ProcessCall ==
    /\ wide_prev' = wide
    /\ wide' = ProcessResult(df_list)
    /\ df_list' = [i \in 1..Len(df_list) |-> AfterProcess(df_list[i])]
    /\ calls' = calls + 1

\* main.py line 92: process on the list of the results of the queries
Process ==
    /\ pc = "process"
    /\ ProcessCall
    /\ pc' = "done"
    /\ UNCHANGED <<doc, differing_elements, raw_df, df_15_hourly, result, log, db, passed, rte, rte_db, weather>>

\* process called again on the same list
Reprocess ==
    /\ pc = "rerun"
    /\ calls < MaxCalls
    /\ ProcessCall
    /\ UNCHANGED <<pc, doc, differing_elements, raw_df, df_15_hourly, result, log, db, passed, rte, rte_db, weather>>

(***************************************************************************)
(* save_to_sqlite, lines 240-261.  The database file holds at most one     *)
(* table under table_name: its columns and its rows.                       *)
(***************************************************************************)
NoTable == [kind |-> "absent", cols |-> <<>>, rows |-> <<>>]

\* df.empty: no row (a table with rows has at least its date column)
IsEmpty(df) == df.rows = <<>>

\* fault variant: if_exists='append'
ToSqlAppend(stored, df) ==
    [kind |-> "table", cols |-> df.cols, rows |-> stored.rows \o df.rows]
\* line 258: df.to_sql(table_name, conn, if_exists='replace', index=False)
ToSql(stored, df) == [kind |-> "table", cols |-> df.cols, rows |-> df.rows]

\* the wide tables passed to save_to_sqlite: one column, n rows of value v
WideOf(n, v) ==
    [kind |-> "df", cols |-> <<(<<"Value">>)>>,
     rows |-> [i \in 1..n |-> [date |-> 60 * (i - 1), cells |-> <<(<<v>>)>>]]]

SaveInputs ==
    {None, EmptyWide, WideOf(0, 1)} \cup {WideOf(n, v) : n \in 1..MaxRows, v \in {1, 2}}

SaveToSqlite ==
    /\ pc = "save"
    /\ Len(passed) < MaxSaves
    /\ \E df \in SaveInputs :
        /\ passed' = Append(passed, df)
        /\ IF df.kind = "None" \/ IsEmpty(df)
           THEN /\ log' = Append(log, Diag("No data to save", "", ""))
                /\ UNCHANGED db
           ELSE /\ db' = ToSql(db, df)
                /\ UNCHANGED log
    /\ UNCHANGED <<pc, doc, differing_elements, raw_df, df_15_hourly, result,
                   df_list, wide, wide_prev, calls, rte, rte_db, weather>>

(***************************************************************************)
(* RTEAPI.download_data: one download per day from startdate to enddate.   *)
(* Dates are day numbers; enddate None is written NoDate.  The record rte  *)
(* holds the arguments, the locals of the call, and what it did: raised    *)
(* (an exception was caught), after (how many times each date was          *)
(* attempted once an exception had been caught, counted up to MaxAttempts) *)
(* and iterations (the number of loop iterations, modulo 2).               *)
(***************************************************************************)
NoDate == 0

Days == 1..MaxDays

NotDownloading ==
    [pc |-> "idle", exists |-> FALSE, startdate |-> NoDate, enddate |-> NoDate,
     current_date |-> NoDate, end_date |-> NoDate, raised |-> FALSE,
     after |-> [d \in Days |-> 0], iterations |-> 0]

DownloadCalls ==
    {[NotDownloading EXCEPT !.pc = "call", !.exists = e, !.startdate = s, !.enddate = n] :
        e \in BOOLEAN, s \in Days, n \in {NoDate} \cup Days}

\* lines 63-67: the final file is already in the download folder
AlreadyDownloaded(r) == r.exists

\* lines 73-77
EndDate(startdate, enddate) == IF enddate = NoDate THEN startdate ELSE enddate

\* lines 120-122: except Exception: current_date = end_date
OnException(current_date, end_date) == end_date

\* line 118
OnSuccess(current_date) == current_date + 1

DownloadOutcomes == {"success", "exception"}

DownloadCall ==
    /\ rte.pc = "call"
    /\ IF AlreadyDownloaded(rte)
       THEN rte' = [rte EXCEPT !.pc = "returned"]
       ELSE rte' = [rte EXCEPT !.pc = "loop",
                               !.current_date = rte.startdate,
                               !.end_date = EndDate(rte.startdate, rte.enddate)]
    /\ UNCHANGED <<doc, pc, differing_elements, raw_df, df_15_hourly, result, log,
                   df_list, wide, wide_prev, calls, db, passed, rte_db, weather>>

\* one iteration of the while loop of line 79: the try block either runs to
\* its end or raises somewhere (a wait that times out, a click that fails)
DownloadDay ==
    /\ rte.pc = "loop"
    /\ rte.current_date <= rte.end_date
    /\ \E outcome \in DownloadOutcomes :
          rte' = [rte EXCEPT
                    !.current_date = IF outcome = "success"
                                     THEN OnSuccess(rte.current_date)
                                     ELSE OnException(rte.current_date, rte.end_date),
                    !.raised = rte.raised \/ outcome = "exception",
                    !.after = IF rte.raised
                              THEN [rte.after EXCEPT ![rte.current_date] = Min({@ + 1, MaxAttempts})]
                              ELSE rte.after,
                    !.iterations = (rte.iterations + 1) % 2]
    /\ UNCHANGED <<doc, pc, differing_elements, raw_df, df_15_hourly, result, log,
                   df_list, wide, wide_prev, calls, db, passed, rte_db, weather>>

DownloadReturn ==
    /\ rte.pc = "loop"
    /\ rte.current_date > rte.end_date
    /\ rte' = [rte EXCEPT !.pc = "returned"]
    /\ UNCHANGED <<doc, pc, differing_elements, raw_df, df_15_hourly, result, log,
                   df_list, wide, wide_prev, calls, db, passed, rte_db, weather>>

(***************************************************************************)
(* RTEDataStorage.save_to_database: the rte_data table of one database     *)
(* file, its rows in rowid order, and the calls made on it so far.         *)
(***************************************************************************)
NoRteData == [exists |-> FALSE, rows |-> <<>>, saved |-> <<>>]

\* the datetime texts of line 59, '%Y-%m-%d %H:%M:%S', on the hour (line 53)
RteDatetimes == {"2024-01-01 00:00:00", "2024-01-01 01:00:00"}

\* the records of one call: consommation tells the call and the place in it
RteRecords(call) ==
    {[i \in 1..Len(ds) |-> [datetime |-> ds[i], consommation |-> 10 * call + i]] :
        ds \in SeqsUpTo(RteDatetimes, 0, MaxRows)}

\* an INSERT into a table without a key
InsertAppend(rows, record) == Append(rows, record)

\* lines 219-220 on the table of lines 178-181, PRIMARY KEY (datetime):
\* INSERT OR REPLACE deletes the row of that datetime, then inserts
InsertOrReplace(rows, record) ==
    Append(SelectSeq(rows, LAMBDA r : r.datetime # record.datetime), record)

\* lines 221-222: INSERT OR IGNORE leaves the table alone on a conflict
InsertOrIgnore(rows, record) ==
    IF \E i \in 1..Len(rows) : rows[i].datetime = record.datetime
    THEN rows
    ELSE Append(rows, record)

\* lines 225-231: the records are inserted one by one, in list order
RECURSIVE InsertRecords(_, _, _)
InsertRecords(rows, records, replace_duplicates) ==
    IF records = <<>> THEN rows
    ELSE InsertRecords(IF replace_duplicates
                       THEN InsertOrReplace(rows, Head(records))
                       ELSE InsertOrIgnore(rows, Head(records)),
                       Tail(records), replace_duplicates)

\* lines 203-205 return before the table is created; create_table
\* (CREATE TABLE IF NOT EXISTS) leaves an existing table as it is
SaveToDatabase ==
    /\ Len(rte_db.saved) < MaxBatches
    /\ \E replace_duplicates \in BOOLEAN, records \in RteRecords(Len(rte_db.saved) + 1) :
          rte_db' = [saved |-> Append(rte_db.saved,
                                      [records |-> records,
                                       replace_duplicates |-> replace_duplicates]),
                     exists |-> rte_db.exists \/ records # <<>>,
                     rows |-> IF records = <<>>
                              THEN rte_db.rows
                              ELSE InsertRecords(rte_db.rows, records, replace_duplicates)]
    /\ UNCHANGED <<doc, pc, differing_elements, raw_df, df_15_hourly, result, log,
                   df_list, wide, wide_prev, calls, db, passed, rte, weather>>

(***************************************************************************)
(* The weather table of main: DataStorage.save_to_sqlite, then the         *)
(* clean-up statement.                                                     *)
(***************************************************************************)
NoWeather == [pc |-> "idle", exists |-> FALSE, rows |-> <<>>, runs |-> <<>>, cleaned |-> <<>>]

\* main.py lines 24-30 (two of the locations) and the hours of the date range
Cities == <<"Paris", "Lyon">>

Times == <<"2024-01-01T00:00", "2024-01-01T01:00">>

\* fetch_multiple_locations_hourly: a location whose response is an error
\* gives no records, the others give one record per hour
Fetched == SUBSET Range(Cities)

\* process_multiple_locations_hourly: the records of one run, location by
\* location, each with a value that tells the run
WeatherRecords(fetched, run) ==
    Flatten([c \in 1..Len(Cities) |->
        IF Cities[c] \in fetched
        THEN [t \in 1..Len(Times) |-> [datetime |-> Times[t], city |-> Cities[c], run |-> run]]
        ELSE <<>>])

\* the rowid SQLite gives a new row: one more than the largest in the table
NextRowid(rows) == IF rows = <<>> THEN 1 ELSE Max({rows[i].rowid : i \in 1..Len(rows)}) + 1

\* Open_Meteo_API.py lines 504-507: INSERT INTO a table without a key
Insert(rows, record) ==
    Append(rows, [rowid |-> NextRowid(rows), datetime |-> record.datetime,
                  city |-> record.city, run |-> record.run])

RECURSIVE InsertAllRecords(_, _)
InsertAllRecords(rows, records) ==
    IF records = <<>> THEN rows
    ELSE InsertAllRecords(Insert(rows, Head(records)), Tail(records))

SameKey(r, q) == r.datetime = q.datetime /\ r.city = q.city

\* a clean-up that keeps MIN(rowid) of every group
DeleteAllButMinRowid(rows) ==
    SelectSeq(rows, LAMBDA r :
        r.rowid = Min({rows[i].rowid : i \in {j \in 1..Len(rows) : SameKey(rows[j], r)}}))

\* main.py lines 46-49: DELETE ... WHERE rowid NOT IN
\* (SELECT MAX(rowid) ... GROUP BY datetime, city)
DeleteAllButMaxRowid(rows) ==
    SelectSeq(rows, LAMBDA r :
        r.rowid = Max({rows[i].rowid : i \in {j \in 1..Len(rows) : SameKey(rows[j], r)}}))

\* main.py lines 32-34: one run's fetch, process and save_to_sqlite, which
\* returns at once on an empty list (Open_Meteo_API.py lines 488-490)
WeatherSave ==
    /\ weather.pc \in {"idle", "saved", "cleaned", "failed"}
    /\ Len(weather.runs) < MaxSaves
    /\ \E fetched \in Fetched :
          LET records == WeatherRecords(fetched, Len(weather.runs) + 1)
          IN  weather' = [weather EXCEPT
                            !.pc = "saved",
                            !.runs = Append(@, fetched),
                            !.exists = @ \/ records # <<>>,
                            !.rows = InsertAllRecords(@, records)]
    /\ UNCHANGED <<doc, pc, differing_elements, raw_df, df_15_hourly, result, log,
                   df_list, wide, wide_prev, calls, db, passed, rte, rte_db>>

\* main.py lines 42-51, which a run reaches unless it ended in between;
\* the DELETE raises when no save has created the table yet
CleanUp ==
    /\ weather.pc = "saved"
    /\ IF weather.exists
       THEN weather' = [weather EXCEPT
                          !.pc = "cleaned",
                          !.cleaned = Append(@, Len(weather.runs)),
                          !.rows = DeleteAllButMaxRowid(@)]
       ELSE weather' = [weather EXCEPT !.pc = "failed"]
    /\ UNCHANGED <<doc, pc, differing_elements, raw_df, df_15_hourly, result, log,
                   df_list, wide, wide_prev, calls, db, passed, rte, rte_db>>

(***************************************************************************)
(* download_data as a function of its arguments and of the outcomes of     *)
(* its downloads.  The interpreter keeps running the loop, so a step that  *)
(* stays possible is eventually taken; nothing makes a download succeed.   *)
(***************************************************************************)
InitDownload ==
    /\ rte \in DownloadCalls
    /\ pc = "download"
    /\ doc = XmlDoc(NoReason, "Z", NoParams, <<>>)
    /\ differing_elements = <<>>
    /\ raw_df = EmptyFrame
    /\ df_15_hourly = <<>>
    /\ result = None
    /\ log = <<>>
    /\ df_list = <<>>
    /\ wide = NotCalled
    /\ wide_prev = NotCalled
    /\ calls = 0
    /\ db = NoTable
    /\ passed = <<>>
    /\ rte_db = NoRteData
    /\ weather = NoWeather

NextDownload == DownloadCall \/ DownloadDay \/ DownloadReturn

SpecDownload == InitDownload /\ [][NextDownload]_vars /\ WF_vars(NextDownload)

(***************************************************************************)
(* save_to_database as a function of its calls: sequences of calls on one  *)
(* table of one database file, which does not exist at first.              *)
(***************************************************************************)
InitRteData ==
    /\ rte_db = NoRteData
    /\ pc = "rte_data"
    /\ doc = XmlDoc(NoReason, "Z", NoParams, <<>>)
    /\ differing_elements = <<>>
    /\ raw_df = EmptyFrame
    /\ df_15_hourly = <<>>
    /\ result = None
    /\ log = <<>>
    /\ df_list = <<>>
    /\ wide = NotCalled
    /\ wide_prev = NotCalled
    /\ calls = 0
    /\ db = NoTable
    /\ passed = <<>>
    /\ rte = NotDownloading
    /\ weather = NoWeather

NextRteData == SaveToDatabase

SpecRteData == InitRteData /\ [][NextRteData]_vars

(***************************************************************************)
(* The weather part of main run again and again on one database file,      *)
(* which does not exist at first.                                          *)
(***************************************************************************)
InitWeather ==
    /\ weather = NoWeather
    /\ pc = "weather"
    /\ doc = XmlDoc(NoReason, "Z", NoParams, <<>>)
    /\ differing_elements = <<>>
    /\ raw_df = EmptyFrame
    /\ df_15_hourly = <<>>
    /\ result = None
    /\ log = <<>>
    /\ df_list = <<>>
    /\ wide = NotCalled
    /\ wide_prev = NotCalled
    /\ calls = 0
    /\ db = NoTable
    /\ passed = <<>>
    /\ rte = NotDownloading
    /\ rte_db = NoRteData

NextWeather == WeatherSave \/ CleanUp

SpecWeather == InitWeather /\ [][NextWeather]_vars

(***************************************************************************)
(* main: one query, then process on the list of its result.                *)
(***************************************************************************)
Init ==
    /\ doc \in Docs
    /\ pc = "fetch"
    /\ differing_elements = <<>>
    /\ raw_df = EmptyFrame
    /\ df_15_hourly = <<>>
    /\ result = None
    /\ log = <<>>
    /\ df_list = <<>>
    /\ wide = NotCalled
    /\ wide_prev = NotCalled
    /\ calls = 0
    /\ db = NoTable
    /\ passed = <<>>
    /\ rte = NotDownloading
    /\ rte_db = NoRteData
    /\ weather = NoWeather

Next == Parse \/ Extract \/ Reconcile \/ Process

Spec == Init /\ [][Next]_vars

(***************************************************************************)
(* process as a function of its input: lists of tables of the shape        *)
(* get_transp_api returns.  Row j of table k carries the value 10k + j, so *)
(* that the row a cell of the wide table comes from can be told.           *)
(*   "typed"  one varying tag (type), native rows                          *)
(*   "plain"  no metadata column, native and aggregated rows               *)
(*   "coded"  the column documentType, native and aggregated rows          *)
(*   "autumn" no metadata column, native rows at 00:00 and 01:00 UTC of    *)
(*            2024-10-27                                                   *)
(***************************************************************************)
\* 2024-10-27T00:00, in minutes since 2024-01-01T00:00: the day Europe/Paris
\* goes back from UTC+2 to UTC+1, at 01:00 UTC
FallBackDay == 300 * 1440

RowShapes(kind) ==
    IF kind = "typed"
    THEN [t : {0, 60}, resolution : {"PT60M"}, meta : {<<"solar">>, <<"wind">>}]
    ELSE IF kind = "autumn"
    THEN [t : {FallBackDay, FallBackDay + 60}, resolution : {"PT60M"}, meta : {<<>>}]
    ELSE [t : {0, 60}, resolution : {"PT60M", "PT60M_aggregated"},
          meta : {IF kind = "plain" THEN <<>> ELSE <<"A69">>}]

\* a table with an aggregated row went through sort_values and drop_duplicates
Reconciled(rs) ==
    (\E j \in 1..Len(rs) : rs[j].resolution = "PT60M_aggregated")
        => \A i, j \in 1..Len(rs) : i < j => rs[i].t < rs[j].t

TableShapes ==
    {[kind |-> "None", rows |-> <<>>]}
        \cup UNION {{[kind |-> kind, rows |-> rs] :
                        rs \in {x \in SeqsUpTo(RowShapes(kind), 0, MaxRows) : Reconciled(x)}} :
                    kind \in {"typed", "plain", "coded", "autumn"}}

ShapeCols(kind) ==
    <<"date", "quantity", "resolution">>
        \o (CASE kind = "typed" -> <<"type">>
              [] kind = "plain" -> <<>>
              [] kind = "autumn" -> <<>>
              [] kind = "coded" -> <<"documentType">>)

TableOf(shape, k) ==
    IF shape.kind = "None" THEN None
    ELSE DataFrame(ShapeCols(shape.kind),
                   [j \in 1..Len(shape.rows) |->
                       [date |-> [t |-> shape.rows[j].t, off |-> 0, s |-> 0],
                        value |-> 10 * k + j,
                        resolution |-> shape.rows[j].resolution,
                        meta |-> shape.rows[j].meta]])

TableLists ==
    {[k \in 1..Len(shapes) |-> TableOf(shapes[k], k)] : shapes \in SeqsUpTo(TableShapes, 0, 2)}

InitProcess ==
    /\ df_list \in TableLists
    /\ pc = "rerun"
    /\ doc = XmlDoc(NoReason, "Z", NoParams, <<>>)
    /\ differing_elements = <<>>
    /\ raw_df = EmptyFrame
    /\ df_15_hourly = <<>>
    /\ result = None
    /\ log = <<>>
    /\ wide = NotCalled
    /\ wide_prev = NotCalled
    /\ calls = 0
    /\ db = NoTable
    /\ passed = <<>>
    /\ rte = NotDownloading
    /\ rte_db = NoRteData
    /\ weather = NoWeather

NextProcess == Reprocess

SpecProcess == InitProcess /\ [][NextProcess]_vars

(***************************************************************************)
(* main run again on the same response: every run is a new interpreter,    *)
(* which keeps nothing of the run before but what main returned (kept here *)
(* in wide, so that two runs can be compared).                             *)
(***************************************************************************)
Rerun ==
    /\ pc = "done"
    /\ calls < MaxCalls
    /\ pc' = "fetch"
    /\ differing_elements' = <<>>
    /\ raw_df' = EmptyFrame
    /\ df_15_hourly' = <<>>
    /\ result' = None
    /\ log' = <<>>
    /\ df_list' = <<>>
    /\ UNCHANGED <<doc, wide, wide_prev, calls, db, passed, rte, rte_db, weather>>

InitRerun ==
    /\ doc \in MetaDocs
    /\ pc = "fetch"
    /\ differing_elements = <<>>
    /\ raw_df = EmptyFrame
    /\ df_15_hourly = <<>>
    /\ result = None
    /\ log = <<>>
    /\ df_list = <<>>
    /\ wide = NotCalled
    /\ wide_prev = NotCalled
    /\ calls = 0
    /\ db = NoTable
    /\ passed = <<>>
    /\ rte = NotDownloading
    /\ rte_db = NoRteData
    /\ weather = NoWeather

NextRerun == Parse \/ Extract \/ Reconcile \/ Process \/ Rerun

SpecRerun == InitRerun /\ [][NextRerun]_vars

(***************************************************************************)
(* save_to_sqlite as a function of its input: sequences of calls on one    *)
(* table name and one database file, which does not exist at first.        *)
(***************************************************************************)
InitSqlite ==
    /\ pc = "save"
    /\ doc = XmlDoc(NoReason, "Z", NoParams, <<>>)
    /\ differing_elements = <<>>
    /\ raw_df = EmptyFrame
    /\ df_15_hourly = <<>>
    /\ result = None
    /\ log = <<>>
    /\ df_list = <<>>
    /\ wide = NotCalled
    /\ wide_prev = NotCalled
    /\ calls = 0
    /\ db = NoTable
    /\ passed = <<>>
    /\ rte = NotDownloading
    /\ rte_db = NoRteData
    /\ weather = NoWeather

NextSqlite == SaveToSqlite

SpecSqlite == InitSqlite /\ [][NextSqlite]_vars

(***************************************************************************)
(* Properties of get_transp_api (checked under Spec).                      *)
(***************************************************************************)
Returned == pc \in {"process", "done"}
ReturnedTable == Returned /\ result.kind = "df"
Extracted == pc \in {"reconcile", "process", "done"} /\ raw_df.cols # <<>>

RawRowsOf(res) == {i \in 1..Len(raw_df.rows) : raw_df.rows[i].resolution = res}
ResultRowsAt(key) == {i \in 1..Len(result.rows) : SubsetKey(result.rows[i]) = key}

\* the keys for which the document yields a PT60M point and a PT15M hourly bucket
ContestedKeys ==
    {SubsetKey(raw_df.rows[i]) : i \in RawRowsOf("PT60M")}
        \cap {SubsetKey(df_15_hourly[j]) : j \in 1..Len(df_15_hourly)}

\* C1: when a PT60M point and an hourly bucket summed from PT15M points have the
\* same (date, grouping columns) key, the returned table holds a PT60M row for
\* that key, with the value of the first PT60M point of that key, and holds no
\* PT60M_aggregated row for it.
C1_NativeWins ==
    ReturnedTable =>
        \A key \in ContestedKeys :
            LET first == Min({i \in RawRowsOf("PT60M") : SubsetKey(raw_df.rows[i]) = key})
            IN /\ \E i \in ResultRowsAt(key) :
                    /\ result.rows[i].resolution = "PT60M"
                    /\ result.rows[i].value = raw_df.rows[first].value
               /\ \A i \in ResultRowsAt(key) : result.rows[i].resolution # "PT60M_aggregated"

\* the scenario of the claim: native 10, four quarter-hours of 2, same key
C1_Witness ==
    /\ ReturnedTable
    /\ ContestedKeys # {}
    /\ \E i \in RawRowsOf("PT60M") :
        /\ raw_df.rows[i].value = 10
        /\ \E j \in 1..Len(df_15_hourly) :
            /\ SubsetKey(df_15_hourly[j]) = SubsetKey(raw_df.rows[i])
            /\ df_15_hourly[j].value = 8
        /\ \E k \in ResultRowsAt(SubsetKey(raw_df.rows[i])) : result.rows[k].value = 10

\* C2: the returned table has at most one row per (date, grouping columns) key.
C2_UniqueKeys ==
    ReturnedTable =>
        \A i, j \in 1..Len(result.rows) :
            i # j => SubsetKey(result.rows[i]) # SubsetKey(result.rows[j])

RECURSIVE SumValues(_)
SumValues(I) ==
    IF I = {} THEN 0
    ELSE LET i == CHOOSE x \in I : TRUE
         IN raw_df.rows[i].value + SumValues(I \ {i})

\* the PT15M points that floor to the hour and carry the grouping values of key
QuarterPoints(key) ==
    {i \in RawRowsOf("PT15M") : SubsetKey(GroupOf(raw_df.rows[i])) = key}

\* the (hour, grouping key) pairs that have PT15M points and no PT60M point
QuarterOnlyKeys ==
    {SubsetKey(GroupOf(raw_df.rows[i])) : i \in RawRowsOf("PT15M")}
        \ {SubsetKey(raw_df.rows[i]) : i \in RawRowsOf("PT60M")}

\* C3: for an hour and grouping key with PT15M points and no PT60M point, the
\* returned table holds exactly one row, whose value is the sum of the values of
\* the PT15M points that floor to that hour and have that grouping key.
C3_QuarterSum ==
    ReturnedTable =>
        \A key \in QuarterOnlyKeys :
            /\ Cardinality(ResultRowsAt(key)) = 1
            /\ \A i \in ResultRowsAt(key) :
                /\ result.rows[i].value = SumValues(QuarterPoints(key))
                /\ result.rows[i].resolution = "PT60M_aggregated"

\* four samples of equal value v in one hour give 4v
C3_Witness ==
    /\ ReturnedTable
    /\ \E key \in QuarterOnlyKeys :
        /\ Cardinality(QuarterPoints(key)) = 4
        /\ \E i \in ResultRowsAt(key) : result.rows[i].value = 40
    /\ \E key \in QuarterOnlyKeys : Cardinality(QuarterPoints(key)) = 2

\* the minutes of an ISO 8601 duration code
IsoMinutes(res) ==
    CASE res = "PT15M" -> 15
      [] res = "PT30M" -> 30
      [] res = "PT60M" -> 60

\* the rank in raw_df of point i of series k
RawIndex(k, i) == SumSeq([m \in 1..(k - 1) |-> Len(AllPoints(doc.series[m]))]) + i

\* C4: the timestamp of the point at position p of a series is the start of the
\* series plus (p - 1) times its resolution in minutes, at the start's UTC offset.
C4_PositionToTimestamp ==
    Extracted =>
        \A k \in 1..Len(doc.series) : \A i \in 1..Len(doc.series[k].pts) :
            LET ts == doc.series[k]
                p == ts.pts[i].position
                date == raw_df.rows[RawIndex(k, i)].date
            IN /\ date.t = (ts.start.d * 24 + ts.start.h) * 60 + ts.start.mi
                               + (p - 1) * IsoMinutes(ts.res)
               /\ date.off = (IF doc.zone = "+01:00" THEN 60 ELSE 0)

C4_Witness ==
    /\ Extracted
    /\ doc.zone = "+01:00"
    /\ Len(doc.series) = 2
    /\ Len(doc.series[2].pts) = 2
    /\ raw_df.rows[RawIndex(2, 2)].date = [t |-> 60, off |-> 60, s |-> 0]

\* the tags whose string value differs between two series of the document
VaryingTags ==
    {tag \in TagNames :
        \E i, j \in 1..Len(doc.series) :
            (IF doc.series[i].tags[tag] = Absent THEN "" ELSE doc.series[i].tags[tag])
                # (IF doc.series[j].tags[tag] = Absent THEN "" ELSE doc.series[j].tags[tag])}

\* C5: the varying-metadata set is empty for a document of one series; for more
\* series it is the set of child tags other than mRID and Period whose string
\* value differs between two series; series that differ in field F only give {F}.
C5_VaryingMetadata ==
    Extracted =>
        /\ Len(differing_elements) = Cardinality(Range(differing_elements))
        /\ Len(doc.series) = 1 => differing_elements = <<>>
        /\ Len(doc.series) > 1 => Range(differing_elements) = VaryingTags
        /\ \A F \in TagNames :
            (/\ Len(doc.series) > 1
             /\ \A tag \in TagNames \ {F} : \A i, j \in 1..Len(doc.series) :
                    doc.series[i].tags[tag] = doc.series[j].tags[tag]
             /\ \E i, j \in 1..Len(doc.series) :
                    doc.series[i].tags[F] # doc.series[j].tags[F])
                => differing_elements = <<F>>

\* three series, of which only the third differs, and only in its type
C5_Witness ==
    /\ Extracted
    /\ Len(doc.series) = 3
    /\ doc.series[1].tags = doc.series[2].tags
    /\ doc.series[3].tags["type"] # doc.series[1].tags["type"]
    /\ doc.series[3].tags["businessType"] = doc.series[1].tags["businessType"]
    /\ differing_elements = <<"type">>

\* C6: for a well-formed namespaced document with a Reason/code element, the call
\* reports the upstream error with that code and the Reason/text message, returns
\* None without selecting the series nodes, and never reports the no-series outcome.
C6_UpstreamErrorFirst ==
    (doc.body = "xml" /\ doc.reason.codes # <<>> /\ pc # "fetch") =>
        /\ Returned
        /\ result = None
        /\ raw_df = EmptyFrame
        /\ log = <<[msg |-> "API Error", code |-> doc.reason.codes[1],
                    text |-> IF doc.reason.texts = <<>> THEN "" ELSE doc.reason.texts[1]]>>
        /\ \A i \in 1..Len(log) : log[i].msg # "No TimeSeries data found."

\* code 999 and no series node
C6_Witness ==
    /\ Returned
    /\ doc.reason.codes = <<"999">>
    /\ doc.series = <<>>
    /\ Len(log) = 1
    /\ log[1].code = "999"

\* the document of the scenario: two PT60M series that differ in type only
ScenarioDoc ==
    XmlDoc(NoReason, "+01:00", NoParams,
           <<MkSeries("PT60M", Midnight, "solar", "A01", 2, "5"),
             MkSeries("PT60M", Midnight, "wind", "A01", 2, "5")>>)

ScenarioRow(t, type) ==
    [date |-> [t |-> t, off |-> 60, s |-> 0], value |-> 5, resolution |-> "PT60M", meta |-> <<type>>]

\* C7: two PT60M series that differ in type only (solar, wind), points at
\* positions 1 and 2, start 2024-01-01T00:00+01:00, no caller parameters:
\* get_transp_api returns 4 rows at 00:00 and 01:00, each with its series' type,
\* and process returns the columns date, solar, wind and two rows.
C7_Scenario ==
    (doc = ScenarioDoc /\ pc = "done") =>
        /\ result.cols = <<"date", "quantity", "resolution", "type">>
        /\ result.rows = <<ScenarioRow(0, "solar"), ScenarioRow(60, "solar"),
                           ScenarioRow(0, "wind"), ScenarioRow(60, "wind")>>
        /\ wide.kind = "df"
        /\ wide.cols = <<(<<"solar">>), (<<"wind">>)>>
        /\ wide.rows = <<[date |-> 0, cells |-> <<(<<5>>), (<<5>>)>>],
                         [date |-> 60, cells |-> <<(<<5>>), (<<5>>)>>]>>

C7_Witness ==
    /\ doc = ScenarioDoc
    /\ pc = "done"
    /\ Len(result.rows) = 4
    /\ Len(wide.rows) = 2

(***************************************************************************)
(* Properties of process (checked under SpecProcess).                      *)
(***************************************************************************)
Processed == calls >= 1 /\ wide.kind = "df"

NotSkipped == {k \in 1..Len(df_list) : ~Skipped(df_list[k])}

\* the long rows process is given: table, row, local timestamp, label, value
InputCells ==
    UNION {{[k |-> k, j |-> j,
             date |-> ToParisNaive(df_list[k].rows[j].date),
             description |-> Description(df_list[k], df_list[k].rows[j]),
             value |-> df_list[k].rows[j].value] : j \in 1..Len(df_list[k].rows)} :
           k \in NotSkipped}

\* C8: the table process returns has no two rows with the same timestamp, and
\* its rows are in strictly ascending timestamp order.
C8_RowsStrictlyAscending ==
    Processed =>
        \A i, j \in 1..Len(wide.rows) : i < j => wide.rows[i].date < wide.rows[j].date

\* two tables that share a timestamp, the first one with its rows in descending order
C8_Witness ==
    /\ Processed
    /\ Len(df_list) = 2
    /\ Len(df_list[1].rows) = 2
    /\ df_list[1].rows[1].date.t > df_list[1].rows[2].date.t
    /\ Len(df_list[2].rows) = 2
    /\ df_list[2].rows[1].date = df_list[2].rows[2].date
    /\ Len(wide.rows) = 2

\* C9: the wide table has one row for every local timestamp and one column for
\* every description label that occurs in a non-empty input table; a cell is null
\* exactly when its (timestamp, label) pair occurs in no input, and a cell that is
\* not null holds the value of an input row of that pair.
C9_OuterJoin ==
    Processed =>
        /\ {wide.rows[i].date : i \in 1..Len(wide.rows)} = {c.date : c \in InputCells}
        /\ Range(wide.cols) = {c.description : c \in InputCells}
        /\ Len(wide.cols) = Cardinality(Range(wide.cols))
        /\ \A i \in 1..Len(wide.rows) :
            /\ Len(wide.rows[i].cells) = Len(wide.cols)
            /\ \A k \in 1..Len(wide.cols) :
                LET here == {c \in InputCells : c.date = wide.rows[i].date
                                                 /\ c.description = wide.cols[k]}
                IN IF here = {} THEN wide.rows[i].cells[k] = <<>>
                   ELSE \E c \in here : wide.rows[i].cells[k] = <<c.value>>

\* two tables with different labels and different timestamps: two null cells
C9_Witness ==
    /\ Processed
    /\ Len(wide.rows) = 2
    /\ Len(wide.cols) = 2
    /\ wide.rows[1].cells[2] = <<>>
    /\ wide.rows[2].cells[1] = <<>>
    /\ wide.rows[1].cells[1] # <<>>
    /\ wide.rows[2].cells[2] # <<>>

ReachesSeries ==
    /\ doc.body = "xml"
    /\ doc.reason.codes = <<>>
    /\ doc.series # <<>>
    /\ Len(doc.pointChildren) >= 2

\* the series with a value text that is not a number, and the other ones
OffendingSeries ==
    {k \in 1..Len(doc.series) :
        \E i \in 1..Len(doc.series[k].pts) : ~IsNumeric(doc.series[k].pts[i].value)}
NumericSeries == (1..Len(doc.series)) \ OffendingSeries

\* the texts that identify series k: its mRID and its metadata values
MetadataOf(k) == {doc.series[k].mRID} \cup {doc.series[k].tags[tag] : tag \in TagNames}

\* C11: when the value text of one series is not a number, the call still
\* returns a table that holds a row for every point of the series whose values
\* are all numbers, and a diagnostic carries the metadata of the failing series.
C11_OnlyOffendingSeriesFails ==
    (Returned /\ ReachesSeries /\ OffendingSeries # {}) =>
        /\ result.kind = "df"
        /\ \A k \in NumericSeries : \A i \in 1..Len(doc.series[k].pts) :
            \E j \in 1..Len(result.rows) :
                /\ result.rows[j].value = NumberOf(doc.series[k].pts[i].value)
                /\ result.rows[j].date.t = 60 * (doc.series[k].pts[i].position - 1)
        /\ \E i \in 1..Len(log) : \E k \in OffendingSeries : log[i].text \in MetadataOf(k)

\* C12: whatever the response (empty body, malformed XML, no namespace, in-band
\* error, no series, malformed first point, value that is not a number), the call
\* returns a table or None, no exception leaves it, and the run goes on.
C12_NoExceptionPropagates ==
    /\ pc # "aborted"
    /\ pc \notin {"fetch", "extract", "reconcile"} => result.kind \in {"df", "None"}
    /\ \A i \in 1..Len(df_list) : df_list[i].kind \in {"df", "None"}

\* a value that is not a number: the exception of line 125 is handled, None is
\* returned and process is run on the list
C12_Witness ==
    /\ pc = "done"
    /\ ReachesSeries
    /\ OffendingSeries # {}
    /\ result = None
    /\ log = <<Diag("Error: exception", "", "")>>
    /\ wide.kind = "df"

\* C13: whenever the call returns None, a diagnostic has been printed.
C13_NoSilentFailure ==
    (Returned /\ result = None) => log # <<>>

\* C15: the rows of a returned table are in ascending timestamp order.
C15_RowsAscending ==
    ReturnedTable =>
        \A i, j \in 1..Len(result.rows) :
            i < j => Instant(result.rows[i].date) <= Instant(result.rows[j].date)

\* the PT60M points of the document that do not fall on an hour boundary
OffHourPoints ==
    {i \in RawRowsOf("PT60M") : raw_df.rows[i].date.t % 60 # 0 \/ raw_df.rows[i].date.s # 0}

\* C16: every row of a returned table has a timestamp whose minute and second
\* are zero, and no row has the timestamp of a PT60M point that is off the hour.
C16_ExactHoursOnly ==
    ReturnedTable =>
        /\ \A j \in 1..Len(result.rows) :
            result.rows[j].date.t % 60 = 0 /\ result.rows[j].date.s = 0
        /\ \A i \in OffHourPoints : \A j \in 1..Len(result.rows) :
            result.rows[j].date # raw_df.rows[i].date

\* a PT60M series that starts at 00:30 next to one that starts at 00:00
C16_Witness ==
    /\ ReturnedTable
    /\ OffHourPoints # {}
    /\ result.rows # <<>>
    /\ Len(result.rows) = Len(raw_df.rows) - Cardinality(OffHourPoints)

\* the ranks in raw_df of the rows of the PT15M group and of the PT60M group
Group15 == {i \in 1..Len(raw_df.rows) : raw_df.rows[i] \in Range(OfResolution(raw_df.rows, "PT15M"))}
Group60 == {i \in 1..Len(raw_df.rows) : raw_df.rows[i] \in Range(OfResolution(raw_df.rows, "PT60M"))}

\* C17: the PT15M group and the PT60M group are disjoint, and every extracted
\* point is in one of them.
C17_GroupsPartitionPoints ==
    Extracted =>
        /\ Group15 \cap Group60 = {}
        /\ Group15 \cup Group60 = 1..Len(raw_df.rows)

\* every series of the document declares PT15M
AllQuarterHourly == \A k \in 1..Len(doc.series) : doc.series[k].res = "PT15M"

\* the (hour, grouping key) pairs for which the document has a PT15M sample
SampledKeys ==
    {<<60 * (raw_df.rows[i].date.t \div 60) - raw_df.rows[i].date.off, 0, raw_df.rows[i].meta>> :
        i \in RawRowsOf("PT15M")}

\* C18: for a document whose series are all PT15M, every returned row is tagged
\* PT60M_aggregated, and every (hour, grouping key) pair that has a PT15M sample
\* has exactly one row.
C18_QuarterHourlyOnly ==
    (ReturnedTable /\ AllQuarterHourly) =>
        /\ \A j \in 1..Len(result.rows) : result.rows[j].resolution = "PT60M_aggregated"
        /\ \A key \in SampledKeys : Cardinality(ResultRowsAt(key)) = 1

\* two PT15M series of different types in the same two hours: four rows
C18_Witness ==
    /\ ReturnedTable
    /\ AllQuarterHourly
    /\ Len(doc.series) = 2
    /\ Cardinality(SampledKeys) = 4
    /\ Len(result.rows) = 4

Reconciled15 == Extracted /\ pc \in {"process", "done"}

QuarterSeries == {k \in 1..Len(doc.series) : doc.series[k].res = "PT15M"}

\* the PT15M series that agree with series k on every metadata tag (the caller's
\* parameters are the same for all the series of a document)
Agreeing(k) == {l \in QuarterSeries : doc.series[l].tags = doc.series[k].tags}

\* the ranks in raw_df of the points of the series of K that fall in the hour of
\* point i of series k
SameHour(K, k, i) ==
    UNION {{RawIndex(l, j) : j \in
                {x \in 1..Len(doc.series[l].pts) :
                    raw_df.rows[RawIndex(l, x)].date.t \div 60
                        = raw_df.rows[RawIndex(k, i)].date.t \div 60}} :
           l \in K}

\* the hourly sums that hold point i of series k: same hour, same grouping values
HourlyRowsOf(k, i) ==
    {j \in 1..Len(df_15_hourly) :
        /\ df_15_hourly[j].date.t = 60 * (raw_df.rows[RawIndex(k, i)].date.t \div 60)
        /\ df_15_hourly[j].meta = raw_df.rows[RawIndex(k, i)].meta}

\* C19: every PT15M point is in exactly one hourly sum, which adds up the points
\* of its hour that come from the series agreeing with its own on every metadata
\* tag, and no other; two PT15M series that differ in a tag have different
\* hourly rows.
C19_SumsWithinGroupingKey ==
    Reconciled15 =>
        \A k \in QuarterSeries : \A i \in 1..Len(doc.series[k].pts) :
            /\ Cardinality(HourlyRowsOf(k, i)) = 1
            /\ \A j \in HourlyRowsOf(k, i) :
                df_15_hourly[j].value = SumValues(SameHour(Agreeing(k), k, i))
            /\ \A l \in QuarterSeries \ Agreeing(k) : \A m \in 1..Len(doc.series[l].pts) :
                HourlyRowsOf(k, i) \cap HourlyRowsOf(l, m) = {}

\* solar 2+2 and wind 10+10 in the same hour: two hourly rows, 4 and 20
C19_Witness ==
    /\ Reconciled15
    /\ QuarterSeries = {1, 2}
    /\ Agreeing(1) = {1}
    /\ Len(df_15_hourly) = 2
    /\ df_15_hourly[1].date = df_15_hourly[2].date
    /\ {df_15_hourly[1].value, df_15_hourly[2].value} = {4, 20}

\* the label of the codes that have one, column by column
ExpectedLabel(col, v) ==
    CASE col = "documentType" /\ v = "A69" -> "Wind and solar forecast"
      [] col = "businessType" /\ v = "A01" -> "Production"
      [] col = "psrType" /\ v = "B16" -> "Solar"
      [] OTHER -> v

\* C20: process does not fail on the table get_transp_api returned, and for
\* every row of that table the wide table has a column whose label is made, in
\* column order, of the mapped label of every metadata value that is a key of
\* the lookup table of its column and of every other metadata value unchanged.
C20_LookupOrVerbatim ==
    (pc = "done" /\ ~Skipped(result)) =>
        /\ wide.kind = "df"
        /\ \A j \in 1..Len(result.rows) :
            LET mc == MetadataCols(result)
            IN mc # <<>> =>
                \E d \in Range(wide.cols) :
                    /\ Len(d) = Len(mc)
                    /\ \A c \in 1..Len(mc) :
                        d[c] = ExpectedLabel(result.cols[mc[c]], ColValue(result.rows[j], mc[c]))

\* business types A01 (a key: Production) and A02 (not a key), document type A69
\* (a key) and type solar (a column with no lookup table) in one table
C20_Witness ==
    /\ pc = "done"
    /\ ~Skipped(result)
    /\ result.cols = <<"date", "quantity", "resolution", "businessType", "documentType", "psrType">>
    /\ wide.cols = <<(<<"A02", "Wind and solar forecast", "Solar">>),
                     (<<"Production", "Wind and solar forecast", "Solar">>)>>

(***************************************************************************)
(* Properties of save_to_sqlite (checked under SpecSqlite).                *)
(***************************************************************************)
\* the rows of a table passed to save_to_sqlite (None has none)
RowsOf(df) == df.rows

\* C14 as stated: after every call the stored table holds exactly the rows of
\* the table passed to that call, an empty table included.
C14_StoredIsLastPassed ==
    passed # <<>> => db.rows = RowsOf(passed[Len(passed)])

\* the tables passed so far that are neither None nor empty
SavedTables == SelectSeq(passed, LAMBDA df : df.kind = "df" /\ ~IsEmpty(df))

\* C14 amended: the stored table holds exactly the columns and the rows of the
\* last table passed that was neither None nor empty (no table is stored before
\* the first one); a call with None or an empty table leaves the stored table as
\* it was, and saving a table twice leaves what saving it once leaves.
C14_StoredIsLastNonEmpty ==
    /\ IF SavedTables = <<>> THEN db = NoTable
       ELSE /\ db.kind = "table"
            /\ db.cols = SavedTables[Len(SavedTables)].cols
            /\ db.rows = SavedTables[Len(SavedTables)].rows
    /\ Len(log) = Len(passed) - Len(SavedTables)

\* the same two-row table saved twice, then an empty table: the two rows stay
C14_Witness ==
    /\ Len(passed) = 3
    /\ passed[1] = WideOf(2, 1)
    /\ passed[2] = WideOf(2, 1)
    /\ passed[3] = EmptyWide
    /\ db.rows = WideOf(2, 1).rows

(***************************************************************************)
(* Properties of the descriptions and of the pivot (checked under          *)
(* SpecProcess).                                                           *)
(***************************************************************************)
\* the table holds more than one distinct resolution value
MixedResolutions(df) ==
    \E i, j \in 1..Len(df.rows) : df.rows[i].resolution # df.rows[j].resolution

\* the description expected for row j of table k: the labels of the metadata
\* columns in column order, then the resolution if the table mixes resolutions
ExpectedDescription(k, j) ==
    LET df == df_list[k]
        r == df.rows[j]
        joined == [i \in 1..Len(r.meta) |-> ExpectedLabel(df.cols[i + 3], r.meta[i])]
                      \o (IF MixedResolutions(df) THEN <<r.resolution>> ELSE <<>>)
    IN IF joined = <<>> THEN <<"Value">> ELSE joined

Earlier(a, b) == a.k < b.k \/ (a.k = b.k /\ a.j < b.j)

\* C22: when several long rows have the same local timestamp and the same
\* description, the cell of the wide table holds the value of the one that comes
\* first in the concatenation: the earlier table, and in one table the earlier row.
C22_FirstWins ==
    Processed =>
        \A i \in 1..Len(wide.rows) : \A c \in 1..Len(wide.cols) :
            LET here == {x \in InputCells : x.date = wide.rows[i].date
                                             /\ x.description = wide.cols[c]}
            IN \A x \in here :
                (\A y \in here \ {x} : Earlier(x, y)) => wide.rows[i].cells[c] = <<x.value>>

\* three rows of one timestamp and one description: two in the first table, one
\* in the second; the cell holds the first row of the first table
C22_Witness ==
    /\ Processed
    /\ Len(df_list) = 2
    /\ Len(df_list[1].rows) = 2
    /\ Len(df_list[2].rows) = 1
    /\ Cardinality({<<x.date, x.description>> : x \in InputCells}) = 1
    /\ wide.rows[1].cells[1] = <<df_list[1].rows[1].value>>

(***************************************************************************)
(* Properties of repeated runs (checked under SpecRerun).                  *)
(***************************************************************************)
\* C23: two runs of get_transp_api and process on the same document return wide
\* tables with the same column names.
C23_SameColumnsEveryRun ==
    (pc = "done" /\ calls >= 2) => wide.cols = wide_prev.cols

(***************************************************************************)
(* Properties of process on lists with failed queries (checked under       *)
(* SpecProcess).                                                           *)
(***************************************************************************)
\* the list without its None and its empty tables
Kept == SelectSeq(df_list, LAMBDA df : df.kind = "df" /\ df.rows # <<>>)

\* C24: process returns what it returns on the list without its None and empty
\* tables, and an empty table, not an error, when nothing is left.
C24_SkipsNoneAndEmpty ==
    calls >= 1 =>
        /\ wide = ProcessResult(Kept)
        /\ Kept = <<>> => wide = EmptyWide

\* None, then a table with rows: the rows of the table are in the wide table
C24_Witness ==
    /\ calls >= 1
    /\ Len(df_list) = 2
    /\ df_list[1] = None
    /\ Len(df_list[2].rows) = 2
    /\ Len(wide.rows) = 2

\* the distinct instants of the input rows of a description
InstantsOf(desc) ==
    UNION {{Instant(df_list[k].rows[j].date) :
                j \in {x \in 1..Len(df_list[k].rows) :
                          Description(df_list[k], df_list[k].rows[x]) = desc}} :
           k \in NotSkipped}

\* the rows of the wide table that hold a value in column c
FilledRows(c) == {i \in 1..Len(wide.rows) : wide.rows[i].cells[c] # <<>>}

\* C25: input rows of one description at distinct instants are in distinct rows
\* of the wide table: every column holds as many values as its description has
\* distinct instants in the input.
C25_DistinctInstantsDistinctRows ==
    Processed =>
        \A c \in 1..Len(wide.cols) :
            Cardinality(FilledRows(c)) = Cardinality(InstantsOf(wide.cols[c]))

(***************************************************************************)
(* Properties of the hourly sums and of the Period blocks (checked under   *)
(* Spec).                                                                  *)
(***************************************************************************)
\* C26: every row of a returned table has the grouping values of a point of the
\* document and, as timestamp, the hour that point falls in.
C26_NoRowWithoutPoint ==
    ReturnedTable =>
        \A j \in 1..Len(result.rows) :
            \E i \in 1..Len(raw_df.rows) :
                /\ raw_df.rows[i].meta = result.rows[j].meta
                /\ raw_df.rows[i].date.off = result.rows[j].date.off
                /\ 60 * (raw_df.rows[i].date.t \div 60) = result.rows[j].date.t

\* the rank in raw_df of point i of the Period block b that follows the first
\* block of series k
LaterIndex(k, b, i) ==
    RawIndex(k, Len(doc.series[k].pts)
                  + SumSeq([c \in 1..(b - 1) |-> Len(doc.series[k].more[c].pts)]) + i)

\* C27: in a series of several Period blocks, the timestamp of a point is the
\* start of its own block plus (position - 1) times the resolution of its own block.
C27_OwnPeriodStart ==
    Extracted =>
        \A k \in 1..Len(doc.series) : \A b \in 1..Len(doc.series[k].more) :
            \A i \in 1..Len(doc.series[k].more[b].pts) :
                LET blk == doc.series[k].more[b]
                IN raw_df.rows[LaterIndex(k, b, i)].date.t =
                       (blk.start.d * 24 + blk.start.h) * 60 + blk.start.mi
                           + (blk.pts[i].position - 1) * IsoMinutes(blk.res)

(***************************************************************************)
(* C28: download_data returns for every start date <= end date, whatever   *)
(* the downloads do, also when every one of them raises; and once an       *)
(* exception was caught no date is attempted more than once.               *)
(***************************************************************************)
C28_AttemptedOnceAfterException == \A d \in Days : rte.after[d] <= 1

C28_DownloadTerminates == <>(rte.pc = "returned")

(***************************************************************************)
(* C29: after any sequence of save_to_database calls the table has at most *)
(* one row per datetime.  The row of a datetime is the last record saved   *)
(* with it under replace_duplicates=True and, when no call saved it that   *)
(* way, the first record saved with it; so a history of replacing calls    *)
(* keeps the last record and a history of ignoring calls keeps the first.  *)
(***************************************************************************)
SavedRecords ==
    Flatten([k \in 1..Len(rte_db.saved) |->
        [i \in 1..Len(rte_db.saved[k].records) |->
            [record |-> rte_db.saved[k].records[i],
             replace_duplicates |-> rte_db.saved[k].replace_duplicates]]])

SavedWith(datetime) ==
    {i \in 1..Len(SavedRecords) : SavedRecords[i].record.datetime = datetime}

Replacing(datetime) ==
    {i \in SavedWith(datetime) : SavedRecords[i].replace_duplicates}

ExpectedRow(datetime) ==
    IF Replacing(datetime) # {}
    THEN SavedRecords[Max(Replacing(datetime))].record
    ELSE SavedRecords[Min(SavedWith(datetime))].record

OneRowPerDatetime ==
    \A i, j \in 1..Len(rte_db.rows) :
        i # j => rte_db.rows[i].datetime # rte_db.rows[j].datetime

C29_OneRowPerDatetime ==
    /\ OneRowPerDatetime
    /\ {rte_db.rows[i].datetime : i \in 1..Len(rte_db.rows)}
           = {d \in RteDatetimes : SavedWith(d) # {}}
    /\ \A i \in 1..Len(rte_db.rows) :
           rte_db.rows[i] = ExpectedRow(rte_db.rows[i].datetime)

\* one datetime was saved twice by replacing calls, another twice by
\* ignoring calls only
C29_Witness ==
    /\ \E d \in RteDatetimes : Cardinality(Replacing(d)) >= 2
    /\ \E d \in RteDatetimes : Replacing(d) = {} /\ Cardinality(SavedWith(d)) >= 2

(***************************************************************************)
(* C30: save_to_sqlite appends, so as long as no clean-up has run a        *)
(* (time, city) saved by k runs has k rows; right after the clean-up of    *)
(* main every (time, city) ever saved has exactly one row, the one         *)
(* inserted last.  In between, a (time, city) has the row the last         *)
(* clean-up kept and one row for every run that saved it since.            *)
(***************************************************************************)
WeatherKeys == {<<Times[t], Cities[c]>> : t \in 1..Len(Times), c \in 1..Len(Cities)}

RowsAt(key) ==
    {i \in 1..Len(weather.rows) :
        weather.rows[i].datetime = key[1] /\ weather.rows[i].city = key[2]}

RunsSaving(key) == {k \in 1..Len(weather.runs) : key[2] \in weather.runs[k]}

LastCleanUp == IF weather.cleaned = <<>> THEN 0 ELSE weather.cleaned[Len(weather.cleaned)]

\* the runs whose row of that key is still in the table
RunsKept(key) ==
    LET before == {k \in RunsSaving(key) : k <= LastCleanUp}
    IN  {k \in RunsSaving(key) : k > LastCleanUp}
            \cup (IF before = {} THEN {} ELSE {Max(before)})

C30_AppendThenKeepLatest ==
    /\ \A key \in WeatherKeys :
          /\ {weather.rows[i].run : i \in RowsAt(key)} = RunsKept(key)
          /\ Cardinality(RowsAt(key)) = Cardinality(RunsKept(key))
    /\ weather.cleaned = <<>> =>
          \A key \in WeatherKeys : Cardinality(RowsAt(key)) = Cardinality(RunsSaving(key))
    /\ weather.pc = "cleaned" =>
          \A key \in WeatherKeys :
              /\ Cardinality(RowsAt(key)) = (IF RunsSaving(key) = {} THEN 0 ELSE 1)
              /\ \A i \in RowsAt(key) :
                    /\ weather.rows[i].run = Max(RunsSaving(key))
                    /\ \A j \in 1..Len(weather.rows) :
                          weather.rows[j].rowid <= weather.rows[i].rowid
                              \/ ~SameKey(weather.rows[i], weather.rows[j])

\* the first clean-up ran after two or more runs, all of which saved Paris
C30_Witness ==
    /\ weather.pc = "cleaned"
    /\ Len(weather.cleaned) = 1
    /\ weather.cleaned[1] >= 2
    /\ \A k \in 1..weather.cleaned[1] : "Paris" \in weather.runs[k]
    /\ \E i \in 1..Len(weather.rows) :
          weather.rows[i].city = "Paris" /\ weather.rows[i].run = weather.cleaned[1]

====
